---- MODULE Spec2Model ----
(***************************************************************************)
(* A model of the two pure functions of the launch notebook:               *)
(*   cumulative_launches_by_period  (docs/launch_aggregation.py and the    *)
(*                                   copy in electron-launches.py)         *)
(*   parse_vague_dates_to_eastern   (src/vague_date_parser.py and copy)    *)
(*                                                                         *)
(* Time is counted in ticks, the smallest representable unit (pandas'      *)
(* microsecond).  The calendar is scaled down: a day has TicksPerDay       *)
(* ticks and a month DaysPerMonth days; quarters and years keep their 3    *)
(* and 12 months.  A naive timestamp is a wall-clock tick; an aware one is *)
(* a UTC instant together with its zone.  Zone "ET" lies EtBehind ticks    *)
(* west of UTC and observes daylight saving time (DstShift ticks).         *)
(***************************************************************************)
EXTENDS Integers, Sequences, FiniteSets, TLC

VARIABLES
    pc,          \* "input" while the arguments are assembled, "done" after the call
                 \* (the notebook passes through "loaded" and "controls")
    df,          \* the Launch_Date_ET column: a sequence of ticks or NaT
    col_tz,      \* df["Launch_Date_ET"].dt.tz : "naive", "UTC" or "ET"
    period,      \* the period argument
    start_date,  \* None, or a timestamp [tz, t]
    end_date,    \* None, or a timestamp [tz, t]
    result,      \* what the call returned or raised
    date_series, \* the parser's input: a sequence of strings
    tz,          \* the parser's tz argument
    output_type, \* the parser's output_type argument
    parsed       \* what the parser returned

vars == <<pc, df, col_tz, period, start_date, end_date, result,
          date_series, tz, output_type, parsed>>

aggVars == <<df, col_tz, period, start_date, end_date, result>>
parseVars == <<date_series, tz, output_type, parsed>>

-----------------------------------------------------------------------------
(* Bounds of the model *)

TicksPerDay == 4
DaysPerMonth == 2
EtBehind == 2
DstShift == 1
MaxRangeRecords == 1
MaxBucketRecords == 3
MaxBatch == 2
MaxMarkers == 2

(* The calendar pandas' period frequencies "Q" and "Y" stand for *)
MonthsPerQuarter == 3
MonthsPerYear == 12

NaT == -1
None == [tz |-> "None", t |-> NaT]

TicksPerMonth == TicksPerDay * DaysPerMonth
TicksPerYear == TicksPerMonth * MonthsPerYear

-----------------------------------------------------------------------------
(* Time zones: what tz_convert, tz_localize and normalize do *)

\* The zone's daylight saving time starts on the second day of the third
\* month and ends on the first day of the eleventh, each at wall tick 1.
SpringDay == 2 * DaysPerMonth + 1
FallDay == 10 * DaysPerMonth

InDst(u) ==
    LET yt == (u - EtBehind) % TicksPerYear
    IN  /\ yt >= SpringDay * TicksPerDay + 1
        /\ yt < FallDay * TicksPerDay + 1

UtcOffset(zone, u) ==
    IF zone = "UTC" THEN 0
    ELSE IF InDst(u) THEN DstShift - EtBehind
    ELSE 0 - EtBehind

\* tz_convert: the wall clock of instant u in the zone
ToWall(zone, u) == u + UtcOffset(zone, u)

\* the instants whose wall clock in the zone reads w
LocalCandidates(zone, w) ==
    {u \in w .. (w + EtBehind) : ToWall(zone, u) = w}

\* Timestamp.tz_localize(zone) of a naive wall time w
tz_localize(zone, w) ==
    LET c == LocalCandidates(zone, w)
    IN  IF c = {} THEN [raised |-> "NonExistentTimeError", ts |-> None]
        ELSE IF Cardinality(c) > 1 THEN [raised |-> "AmbiguousTimeError", ts |-> None]
        ELSE [raised |-> "none", ts |-> [tz |-> zone, t |-> CHOOSE u \in c : TRUE]]

\* Timestamp.normalize(): midnight of the timestamp's own calendar day
normalize(ts) ==
    IF ts.tz = "naive" THEN [tz |-> "naive", t |-> ts.t - (ts.t % TicksPerDay)]
    ELSE LET w == ToWall(ts.tz, ts.t)
             w0 == w - (w % TicksPerDay)
         IN  [tz |-> ts.tz, t |-> CHOOSE u \in LocalCandidates(ts.tz, w0) : TRUE]

\* ts + pd.Timedelta(days=1) - pd.Timedelta(microseconds=1): a Timedelta is
\* an absolute duration, for a naive and for an aware timestamp alike
PlusDayMinusTick(ts) == [tz |-> ts.tz, t |-> ts.t + TicksPerDay - 1]

-----------------------------------------------------------------------------
(* Sequence helpers *)

RECURSIVE SortedSeq(_)
\* a set of integers as an ascending sequence
SortedSeq(S) ==
    IF S = {} THEN <<>>
    ELSE LET lo == CHOOSE x \in S : \A y \in S : x <= y
         IN  <<lo>> \o SortedSeq(S \ {lo})

CountOf(s, x) == Cardinality({i \in 1..Len(s) : s[i] = x})

-----------------------------------------------------------------------------
(* cumulative_launches_by_period *)

period_map == {"month", "quarter", "year"}

\* the localisation of a bound to the column's zone: only a naive bound
\* against an aware column is localised
LocalizeBound(ctz, b) ==
    IF ctz # "naive" /\ b.tz = "naive"
    THEN tz_localize(ctz, b.t)
    ELSE [raised |-> "none", ts |-> b]

\* An ordering comparison of the column with a bound raises TypeError when
\* exactly one side is aware
MixedComparison(ctz, b) == (ctz = "naive") # (b.tz = "naive")

\* df_period[df_period["Launch_Date_ET"] >= start_date]; NaT compares False
FilterGE(rows, b) == SelectSeq(rows, LAMBDA m : m # NaT /\ m >= b.t)

\* df_period[df_period["Launch_Date_ET"] <= end_date]
FilterLE(rows, b) == SelectSeq(rows, LAMBDA m : m # NaT /\ m <= b.t)

\* A step of the function's body takes and returns the local state
\* [raised, df_period, filtersRun]; once raised, the later steps are skipped.
StartFilter(st, ctz, sd) ==
    IF st.raised # "none" \/ sd = None THEN st
    ELSE LET loc == LocalizeBound(ctz, sd)
         IN  IF loc.raised # "none" THEN [st EXCEPT !.raised = loc.raised]
             ELSE IF MixedComparison(ctz, loc.ts)
                  THEN [st EXCEPT !.raised = "TypeError",
                                  !.filtersRun = st.filtersRun + 1]
             ELSE [st EXCEPT !.df_period = FilterGE(st.df_period, loc.ts),
                             !.filtersRun = st.filtersRun + 1]

\* an end bound left at the midnight that starts its day
EndOfDay_midnight(ed) == normalize(ed)

\* end_date.normalize() + Timedelta(days=1) - Timedelta(microseconds=1)
EndOfDay(ed) == PlusDayMinusTick(normalize(ed))

EndFilter(st, ctz, ed) ==
    IF st.raised # "none" \/ ed = None THEN st
    ELSE LET loc == LocalizeBound(ctz, EndOfDay(ed))
         IN  IF loc.raised # "none" THEN [st EXCEPT !.raised = loc.raised]
             ELSE IF MixedComparison(ctz, loc.ts)
                  THEN [st EXCEPT !.raised = "TypeError",
                                  !.filtersRun = st.filtersRun + 1]
             ELSE [st EXCEPT !.df_period = FilterLE(st.df_period, loc.ts),
                             !.filtersRun = st.filtersRun + 1]

CheckPeriod(st, p) ==
    IF st.raised # "none" THEN st
    ELSE IF p \notin period_map THEN [st EXCEPT !.raised = "ValueError"]
    ELSE st

MonthsPer(p) ==
    CASE p = "month" -> 1
      [] p = "quarter" -> MonthsPerQuarter
      [] p = "year" -> MonthsPerYear

\* a to_period that buckets by month whatever the frequency asked for
to_period_monthly(ctz, m, p) ==
    IF m = NaT THEN NaT
    ELSE (IF ctz = "naive" THEN m ELSE ToWall(ctz, m)) \div TicksPerMonth

\* .dt.to_period(freq): the ordinal of the period holding the moment's wall
\* clock (an aware column loses its zone and keeps its local time)
to_period(ctz, m, p) ==
    IF m = NaT THEN NaT
    ELSE (IF ctz = "naive" THEN m ELSE ToWall(ctz, m)) \div (TicksPerMonth * MonthsPer(p))

\* period.dt.to_timestamp(): the first tick of the period
to_timestamp(k, p) == k * TicksPerMonth * MonthsPer(p)

\* a groupby that keeps the missing key as a group (dropna=False)
GroupBySize_keepna(keys) ==
    LET present == {keys[i] : i \in 1..Len(keys)}
        order == SortedSeq(present)
    IN  [i \in 1..Len(order) |-> [period |-> order[i], count |-> CountOf(keys, order[i])]]

\* groupby("period").size(): one row per key present, keys ascending, the
\* missing key dropped
GroupBySize(keys) ==
    LET present == {keys[i] : i \in 1..Len(keys)} \ {NaT}
        order == SortedSeq(present)
    IN  [i \in 1..Len(order) |-> [period |-> order[i], count |-> CountOf(keys, order[i])]]

\* sort_values("date")
SortValues(rows) == SortSeq(rows, LAMBDA a, b : a.date < b.date)

RECURSIVE Total(_, _)
Total(counts, i) == IF i = 0 THEN 0 ELSE counts[i] + Total(counts, i - 1)

\* a cumsum that forgets to accumulate
cumsum_counts_only(counts) == counts

\* a cumsum that leaves the current bucket out of its own total
cumsum_exclusive(counts) == [i \in 1..Len(counts) |-> Total(counts, i - 1)]

\* Series.cumsum()
cumsum(counts) == [i \in 1..Len(counts) |-> Total(counts, i)]

Aggregated(st, ctz, p) ==
    IF st.raised # "none" THEN <<>>
    ELSE LET keys == [i \in 1..Len(st.df_period) |-> to_period(ctz, st.df_period[i], p)]
             grouped == GroupBySize(keys)
             dated == [i \in 1..Len(grouped) |->
                         [period |-> grouped[i].period,
                          count |-> grouped[i].count,
                          date |-> to_timestamp(grouped[i].period, p)]]
             period_counts == SortValues(dated)
             running == cumsum([i \in 1..Len(period_counts) |-> period_counts[i].count])
         IN  [i \in 1..Len(period_counts) |->
                 [date |-> period_counts[i].date,
                  period_label |-> period_counts[i].period,
                  launch_count |-> running[i]]]

cumulative_launches_by_period(rows, ctz, p, sd, ed) ==
    LET st0 == [raised |-> "none", df_period |-> rows, filtersRun |-> 0]
        st1 == StartFilter(st0, ctz, sd)
        st2 == EndFilter(st1, ctz, ed)
        st3 == CheckPeriod(st2, p)
    IN  [raised |-> st3.raised,
         filtersRun |-> st3.filtersRun,
         df_period |-> st3.df_period,
         aggregated |-> Aggregated(st3, ctz, p)]

NotCalled == [raised |-> "none", filtersRun |-> 0, df_period |-> <<>>, aggregated |-> <<>>]

-----------------------------------------------------------------------------
(* parse_vague_dates_to_eastern *)
(* A string is a sequence of characters; a run of characters that one       *)
(* strptime directive consumes (a year, a month abbreviation, ...) is kept  *)
(* as one element.                                                          *)

\* what each directive accepts, and the number it reads (years count from
\* 1, months and days from 0, times of day in ticks)
YearVal == ("2017" :> 1) @@ ("2018" :> 2)
MonthVal == ("Jan" :> 0) @@ ("May" :> 4) @@ ("Nov" :> 10)
DayVal == ("01" :> 0) @@ ("02" :> 1)
HourMinuteVal == ("0000" :> 0) @@ ("1200" :> 2)
SecondVal == ("00" :> 0) @@ ("30" :> 1)

FieldVal(directive) ==
    CASE directive = "%Y" -> YearVal
      [] directive = "%b" -> MonthVal
      [] directive = "%d" -> DayVal
      [] directive = "%H%M" -> HourMinuteVal
      [] directive = "%S" -> SecondVal

Directives == {"%Y", "%b", "%d", "%H%M", "%S"}

\* format='%Y %b %d %H%M:%S', '%Y %b %d %H%M' and '%Y %b %d'
fmt_seconds == <<"%Y", " ", "%b", " ", "%d", " ", "%H%M", ":", "%S">>
fmt_minutes == <<"%Y", " ", "%b", " ", "%d", " ", "%H%M">>
fmt_date == <<"%Y", " ", "%b", " ", "%d">>

\* the whole string must match the format, directive by directive
Matches(s, fmt) ==
    /\ Len(s) = Len(fmt)
    /\ \A i \in 1..Len(fmt) :
          IF fmt[i] \in Directives
          THEN s[i] \in DOMAIN FieldVal(fmt[i])
          ELSE s[i] = fmt[i]

\* the weight in ticks of what a directive reads
TicksOf(directive) ==
    CASE directive = "%Y" -> TicksPerYear
      [] directive = "%b" -> TicksPerMonth
      [] directive = "%d" -> TicksPerDay
      [] directive = "%H%M" -> 1
      [] directive = "%S" -> 1

RECURSIVE FieldSum(_, _, _)
FieldSum(s, fmt, i) ==
    IF i = 0 THEN 0
    ELSE FieldSum(s, fmt, i - 1)
         + (IF fmt[i] \in Directives
            THEN FieldVal(fmt[i])[s[i]] * TicksOf(fmt[i])
            ELSE 0)

\* pd.to_datetime(x, format=fmt, errors='coerce') of one element
to_datetime(s, fmt) ==
    IF Matches(s, fmt) THEN FieldSum(s, fmt, Len(fmt)) ELSE NaT

Markers == {"?", "s"}

\* a strip that removes one trailing marker only
rstrip_once(s) ==
    IF s # <<>> /\ s[Len(s)] \in Markers THEN SubSeq(s, 1, Len(s) - 1) ELSE s

RECURSIVE rstrip(_)
\* str.rstrip('?s')
rstrip(s) ==
    IF s # <<>> /\ s[Len(s)] \in Markers
    THEN rstrip(SubSeq(s, 1, Len(s) - 1))
    ELSE s

\* a retry that parses every element again and overwrites the whole column
Retry_unmasked(dates, clean, fmt) ==
    [i \in 1..Len(dates) |-> to_datetime(clean[i], fmt)]

\* a retry that runs only when every element is still missing
Retry_when_all(dates, clean, fmt) ==
    IF \A i \in 1..Len(dates) : dates[i] = NaT
    THEN [i \in 1..Len(dates) |-> to_datetime(clean[i], fmt)]
    ELSE dates

\* mask = dates.isna(); if mask.any(): dates.loc[mask] = to_datetime(clean.loc[mask], fmt)
Retry(dates, clean, fmt) ==
    LET mask == [i \in 1..Len(dates) |-> dates[i] = NaT]
    IN  IF \E i \in 1..Len(dates) : mask[i]
        THEN [i \in 1..Len(dates) |->
                 IF mask[i] THEN to_datetime(clean[i], fmt) ELSE dates[i]]
        ELSE dates

\* a date taken from the raw UTC value, before the conversion
LocalDate_before_convert(zone, u) == IF u = NaT THEN NaT ELSE u \div TicksPerDay

\* dates.dt.date after dates.dt.tz_convert(zone): the local calendar day
LocalDate(zone, u) == IF u = NaT THEN NaT ELSE ToWall(zone, u) \div TicksPerDay

parse_vague_dates_to_eastern(series, zone, otype) ==
    LET date_series_clean == [i \in 1..Len(series) |-> rstrip(series[i])]
        first == [i \in 1..Len(series) |-> to_datetime(date_series_clean[i], fmt_seconds)]
        second == Retry(first, date_series_clean, fmt_minutes)
        dates == Retry(second, date_series_clean, fmt_date)
    IN  IF otype = "date"
        THEN [i \in 1..Len(series) |-> LocalDate(zone, dates[i])]
        ELSE dates

-----------------------------------------------------------------------------
(* The calls explored.  The scalar arguments are drawn by Init, the column  *)
(* is assembled row by row, and Aggregate is the call itself.               *)

ColTzs == {"naive", "UTC", "ET"}

\* the ticks around the day on which daylight saving time ends
RangeTicks == (FallDay * TicksPerDay - 1) .. ((FallDay + 1) * TicksPerDay + EtBehind)

RangeBounds == {None} \cup {[tz |-> z, t |-> x] : z \in ColTzs, x \in RangeTicks}

\* midnights spread over months, quarters and two years
BucketDays == {1, DaysPerMonth, MonthsPerQuarter * DaysPerMonth, FallDay,
               MonthsPerYear * DaysPerMonth, (MonthsPerYear + 1) * DaysPerMonth}

BucketTicks == {d * TicksPerDay : d \in BucketDays}

BucketStarts == {None, [tz |-> "naive", t |-> DaysPerMonth * TicksPerDay]}

BucketEnds == {None, [tz |-> "naive", t |-> FallDay * TicksPerDay]}

ParserIdle ==
    /\ date_series = <<>>
    /\ tz = "UTC"
    /\ output_type = "datetime"
    /\ parsed = <<>>

AggregatorIdle ==
    /\ df = <<>>
    /\ col_tz = "naive"
    /\ period = "quarter"
    /\ start_date = None
    /\ end_date = None
    /\ result = NotCalled

\* the strings offered to the parser, before any marker is appended
Bodies ==
    {<<"2017", " ", "May", " ", "01", " ", "1200", ":", "30">>,
     <<"2017", " ", "May", " ", "01", " ", "1200">>,
     <<"2017", " ", "May", " ", "01">>,
     <<"2018", " ", "Jan", " ", "01">>,
     <<"2017", " ", "Nov", " ", "02", " ", "0000">>,
     <<"2017", " ", "May", " ", "01", " ", "1200", ":">>,
     <<"?", "2017", " ", "May", " ", "01">>,
     <<"garbage">>,
     <<>>}

MarkersIn(s) == Cardinality({j \in 1..Len(s) : s[j] \in Markers})

RECURSIVE MarkerTotal(_, _)
MarkerTotal(series, i) ==
    IF i = 0 THEN 0 ELSE MarkersIn(series[i]) + MarkerTotal(series, i - 1)

\* the marker characters in the whole batch
MarkerCount(series) == MarkerTotal(series, Len(series))

InitParse ==
    /\ pc = "input"
    /\ date_series = <<>>
    /\ tz \in {"UTC", "ET"}
    /\ output_type \in {"datetime", "date"}
    /\ parsed = <<>>
    /\ AggregatorIdle

InitRange ==
    /\ pc = "input"
    /\ df = <<>>
    /\ col_tz \in ColTzs
    /\ period \in {"quarter", "week"}
    /\ start_date \in RangeBounds
    /\ end_date \in RangeBounds
    /\ result = NotCalled
    /\ ParserIdle

InitBucket ==
    /\ pc = "input"
    /\ df = <<>>
    /\ col_tz \in ColTzs
    /\ period \in period_map \cup {"week"}
    /\ start_date \in BucketStarts
    /\ end_date \in BucketEnds
    /\ result = NotCalled
    /\ ParserIdle

AddRangeRecord ==
    /\ pc = "input"
    /\ Len(df) < MaxRangeRecords
    /\ \E m \in RangeTicks \cup {NaT} : df' = Append(df, m)
    /\ UNCHANGED <<pc, col_tz, period, start_date, end_date, result, parseVars>>

AddBucketRecord ==
    /\ pc = "input"
    /\ Len(df) < MaxBucketRecords
    /\ \E m \in BucketTicks \cup {NaT} : df' = Append(df, m)
    /\ UNCHANGED <<pc, col_tz, period, start_date, end_date, result, parseVars>>

Aggregate ==
    /\ pc = "input"
    /\ result' = cumulative_launches_by_period(df, col_tz, period, start_date, end_date)
    /\ pc' = "done"
    /\ UNCHANGED <<df, col_tz, period, start_date, end_date, parseVars>>

AppendString ==
    /\ pc = "input"
    /\ Len(date_series) < MaxBatch
    /\ \E body \in Bodies : date_series' = Append(date_series, body)
    /\ UNCHANGED <<pc, tz, output_type, parsed, aggVars>>

\* one more marker character at the end of the last string
AppendMarker ==
    /\ pc = "input"
    /\ date_series # <<>>
    /\ MarkerCount(date_series) < MaxMarkers
    /\ \E c \in Markers :
          date_series' = [date_series EXCEPT ![Len(date_series)] = Append(@, c)]
    /\ UNCHANGED <<pc, tz, output_type, parsed, aggVars>>

Parse ==
    /\ pc = "input"
    /\ parsed' = parse_vague_dates_to_eastern(date_series, tz, output_type)
    /\ pc' = "done"
    /\ UNCHANGED <<date_series, tz, output_type, aggVars>>

\* the moments of a column that are not missing
Moments(col) == {col[i] : i \in {j \in 1..Len(col) : col[j] # NaT}}

\* Series.min() and Series.max(): the missing values are skipped
SeriesMin(col) == CHOOSE x \in Moments(col) : \A y \in Moments(col) : x <= y
SeriesMax(col) == CHOOSE x \in Moments(col) : \A y \in Moments(col) : x >= y

\* Timestamp.date() handed to mo.ui.date: the local calendar date, which
\* pd.to_datetime later reads as the naive midnight of that date
DateControl(zone, u) == [tz |-> "naive", t |-> LocalDate(zone, u) * TicksPerDay]

\* the notebook's first cell: parse the Launch_Date column into Launch_Date_ET
LoadCell ==
    /\ pc = "input"
    /\ parsed' = parse_vague_dates_to_eastern(date_series, tz, output_type)
    /\ df' = parsed'
    /\ col_tz' = tz
    /\ pc' = "loaded"
    /\ UNCHANGED <<period, start_date, end_date, result, date_series, tz, output_type>>

\* the controls cell at its default values; a column without any parsed
\* moment has no minimum to take a date of
ControlsCell ==
    /\ pc = "loaded"
    /\ Moments(df) # {}
    /\ \E p \in period_map : period' = p
    /\ start_date' = DateControl(col_tz, SeriesMin(df))
    /\ end_date' = DateControl(col_tz, SeriesMax(df))
    /\ pc' = "controls"
    /\ UNCHANGED <<df, col_tz, result, parseVars>>

\* the cell that calls the aggregator with the controls' values
AggregateCell ==
    /\ pc = "controls"
    /\ result' = cumulative_launches_by_period(df, col_tz, period, start_date, end_date)
    /\ pc' = "done"
    /\ UNCHANGED <<df, col_tz, period, start_date, end_date, parseVars>>

InitNotebook ==
    /\ pc = "input"
    /\ date_series = <<>>
    /\ tz = "ET"
    /\ output_type = "datetime"
    /\ parsed = <<>>
    /\ AggregatorIdle

NextNotebook == AppendString \/ AppendMarker \/ LoadCell \/ ControlsCell \/ AggregateCell

SpecNotebook == InitNotebook /\ [][NextNotebook]_vars

NextParse == AppendString \/ AppendMarker \/ Parse

SpecParse == InitParse /\ [][NextParse]_vars

NextRange == AddRangeRecord \/ Aggregate

NextBucket == AddBucketRecord \/ Aggregate

SpecRange == InitRange /\ [][NextRange]_vars

SpecBucket == InitBucket /\ [][NextBucket]_vars

-----------------------------------------------------------------------------
(* What the claims speak of, stated without the function's own arithmetic *)

Returned == pc = "done" /\ result.raised = "none"

\* the wall clock of a value of zone z ("naive": the value is a wall clock)
WallIn(z, x) == IF z = "naive" THEN x ELSE ToWall(z, x)

DayOf(w) == w \div TicksPerDay

\* the zone in whose calendar a bound's day is read: its own, or the
\* column's when the bound is naive
FrameOf(b) == IF b.tz = "naive" THEN col_tz ELSE b.tz

\* the calendar day of bound b, and of moment m in b's frame
BoundDay(b) == DayOf(WallIn(b.tz, b.t))
MomentDay(b, m) == DayOf(WallIn(FrameOf(b), m))

\* the first tick of the calendar period that holds wall clock w
PeriodStartOf(w, p) ==
    LET month == w \div TicksPerMonth
        first == CASE p = "month" -> month
                   [] p = "quarter" -> month - (month % MonthsPerQuarter)
                   [] p = "year" -> month - (month % MonthsPerYear)
    IN  first * TicksPerMonth

PeriodTicks(p) == TicksPerMonth * MonthsPer(p)

\* the wall clocks of the records that survived the range filter
SurvivorWalls == [i \in 1..Len(result.df_period) |-> WallIn(col_tz, result.df_period[i])]

Survivors == {i \in 1..Len(result.df_period) : result.df_period[i] # NaT}

Buckets == result.aggregated

-----------------------------------------------------------------------------
(* Claims on the range filter, checked under SpecRange *)

\* C1: a period outside {month, quarter, year} raises the invalid-granularity
\* error (ValueError) before any start/end filtering is performed, whatever
\* the records and the bounds.
C1_InvalidPeriodRaisesFirst ==
    (pc = "done" /\ period \notin period_map)
        => (result.raised = "ValueError" /\ result.filtersRun = 0)

\* C2: with an end bound, the records kept are exactly those whose moment
\* falls on or before the calendar day of the end bound, whatever the
\* bound's time of day: the day of the bound is kept whole, the next day
\* is excluded.
C2_EndDayInclusive ==
    (Returned /\ start_date = None /\ end_date # None)
        => result.df_period =
              SelectSeq(df, LAMBDA m : m # NaT /\ MomentDay(end_date, m) <= BoundDay(end_date))

\* C3: with a start bound, the records filtered out are exactly those
\* strictly earlier than midnight of the start bound's day, also when the
\* bound carries a time of day.
C3_StartFromMidnight ==
    (Returned /\ start_date # None /\ end_date = None)
        => result.df_period =
              SelectSeq(df, LAMBDA m : m # NaT /\ MomentDay(start_date, m) >= BoundDay(start_date))

\* C4: the column is never compared with a bound across aware and naive
\* values (such a comparison is the one that raises TypeError): the naive
\* side is localised first, for every combination of column and bound.
C4_NeverMixedComparison ==
    pc = "done" => result.raised # "TypeError"

-----------------------------------------------------------------------------
(* Claims on the buckets, checked under SpecBucket *)

\* C5: over the buckets ordered by period start the cumulative count never
\* decreases.
C5_CumulativeMonotone ==
    Returned =>
        \A i, j \in 1..Len(Buckets) :
            Buckets[i].date < Buckets[j].date
                => Buckets[i].launch_count <= Buckets[j].launch_count

C5_Witness ==
    /\ Returned
    /\ Len(Buckets) >= 2
    /\ Len(result.df_period) > Len(Buckets)
    /\ Buckets[1].launch_count >= 2

\* C6: a bucket's cumulative count is the number of surviving records whose
\* moment falls at or before the end of the bucket's period.
C6_CumulativeIsRunningTotal ==
    Returned =>
        \A i \in 1..Len(Buckets) :
            Buckets[i].launch_count =
                Cardinality({k \in Survivors :
                               SurvivorWalls[k] < Buckets[i].date + PeriodTicks(period)})

C6_Witness ==
    /\ Returned
    /\ Len(Buckets) >= 2
    /\ Buckets[Len(Buckets)].launch_count = 3
    /\ Buckets[1].launch_count = 1

\* C7: there is exactly one bucket for each calendar period (month, quarter
\* or year, by its first tick) that holds a surviving record, none for a
\* period without records, and the buckets ascend strictly by period start.
C7_OneBucketPerOccupiedPeriod ==
    Returned =>
        /\ {Buckets[i].date : i \in 1..Len(Buckets)}
              = {PeriodStartOf(SurvivorWalls[k], period) : k \in Survivors}
        /\ \A i, j \in 1..Len(Buckets) : i < j => Buckets[i].date < Buckets[j].date

\* two buckets with an empty period between them, from an unsorted column
C7_Witness ==
    /\ Returned
    /\ period = "quarter"
    /\ Len(Buckets) = 2
    /\ Buckets[2].date - Buckets[1].date > PeriodTicks(period)
    /\ Len(df) = 3
    /\ \A i \in 1..3 : df[i] # NaT
    /\ df[1] > df[2]

-----------------------------------------------------------------------------
(* What the parser's claims speak of *)

Parsed == pc = "done" /\ Len(date_series) > 0

\* the three grammars of a Vague Date, as sets of strings
DateOnly ==
    {<<y, " ", b, " ", d>> : y \in DOMAIN YearVal, b \in DOMAIN MonthVal, d \in DOMAIN DayVal}

WithMinutes == {x \o <<" ", hm>> : x \in DateOnly, hm \in DOMAIN HourMinuteVal}

WithSeconds == {x \o <<":", sec>> : x \in WithMinutes, sec \in DOMAIN SecondVal}

\* the string without its trailing run of marker characters
BodyOf(s) ==
    LET k == CHOOSE k \in 0..Len(s) :
                 /\ \A j \in (k + 1)..Len(s) : s[j] \in Markers
                 /\ k = 0 \/ s[k] \notin Markers
    IN  SubSeq(s, 1, k)

Parseable(s) == BodyOf(s) \in (WithSeconds \cup WithMinutes \cup DateOnly)

\* the UTC instant a string of one of the grammars denotes
MidnightOf(c) ==
    YearVal[c[1]] * TicksPerYear + MonthVal[c[3]] * TicksPerMonth + DayVal[c[5]] * TicksPerDay

InstantOf(c) ==
    IF c \in WithSeconds THEN MidnightOf(c) + HourMinuteVal[c[7]] + SecondVal[c[9]]
    ELSE IF c \in WithMinutes THEN MidnightOf(c) + HourMinuteVal[c[7]]
    ELSE IF c \in DateOnly THEN MidnightOf(c)
    ELSE NaT

\* an instant as the parser reports it under the call's tz and output_type
Reported(u) ==
    IF u = NaT THEN NaT
    ELSE IF output_type = "date" THEN DayOf(WallIn(tz, u))
    ELSE u

-----------------------------------------------------------------------------
(* Claims on the parser, checked under SpecParse *)

\* C8: N strings give N results in the same positions; a string that matches
\* no grammar gives the missing marker instead of an error, and every other
\* string parses to what it parses to with the unparseable ones left out.
C8_BatchIsElementwise ==
    Parsed =>
        /\ Len(parsed) = Len(date_series)
        /\ \A i \in 1..Len(date_series) :
              Parseable(date_series[i]) <=> parsed[i] # NaT
        /\ SelectSeq(parsed, LAMBDA v : v # NaT)
              = parse_vague_dates_to_eastern(SelectSeq(date_series, Parseable),
                                             tz, output_type)

C8_Witness ==
    /\ Parsed
    /\ Len(date_series) = 2
    /\ ~Parseable(date_series[1])
    /\ date_series[2] \in DateOnly
    /\ parsed[1] = NaT
    /\ parsed[2] # NaT

\* C9: every element is resolved by the first of the seconds, the
\* hour-minute and the date-only grammar that matches it, and keeps that
\* value through the later steps; a date-only string is midnight UTC of its
\* date; what no grammar matches is reported missing.
C9_FallbackCascade ==
    Parsed =>
        \A i \in 1..Len(date_series) :
            LET c == BodyOf(date_series[i])
            IN  /\ parsed[i] = Reported(InstantOf(c))
                /\ c \in DateOnly => InstantOf(c) % TicksPerDay = 0

\* a batch whose first element the first step resolves and whose second the last
C9_Witness ==
    /\ Parsed
    /\ output_type = "datetime"
    /\ Len(date_series) = 2
    /\ BodyOf(date_series[1]) \in WithSeconds
    /\ BodyOf(date_series[2]) \in DateOnly
    /\ parsed[1] % TicksPerDay # 0
    /\ parsed[2] % TicksPerDay = 0

\* C10: stripping removes the whole trailing run of '?' and 's' and nothing
\* else, so a string parses as it does without that run, in whatever order
\* and number the markers come; stripping twice changes nothing more; a
\* string of markers alone is unparseable.
C10_MarkerStripping ==
    Parsed =>
        \A i \in 1..Len(date_series) :
            LET s == date_series[i]
            IN  /\ rstrip(s) = BodyOf(s)
                /\ rstrip(rstrip(s)) = rstrip(s)
                /\ <<parsed[i]>> = parse_vague_dates_to_eastern(<<BodyOf(s)>>, tz, output_type)
                /\ (s # <<>> /\ \A j \in 1..Len(s) : s[j] \in Markers) => parsed[i] = NaT

\* a valid string followed by both markers is parsed
C10_Witness ==
    /\ Parsed
    /\ \E i \in 1..Len(date_series) :
          LET s == date_series[i]
          IN  /\ Len(s) = Len(BodyOf(s)) + 2
              /\ s[Len(s)] # s[Len(s) - 1]
              /\ BodyOf(s) \in WithSeconds
              /\ parsed[i] # NaT

\* C11: a resolved value is read as a UTC instant and then converted to the
\* requested zone; in 'date' mode the date is taken after the conversion, so
\* it is the local date of the instant (a UTC midnight falls on the previous
\* date in a zone west of UTC), never the date of the raw UTC value.
C11_DateAfterConversion ==
    Parsed =>
        \A i \in 1..Len(date_series) :
            LET c == BodyOf(date_series[i])
                u == InstantOf(c)
            IN  u # NaT =>
                  /\ output_type = "datetime" => parsed[i] = u
                  /\ output_type = "date" =>
                        /\ parsed[i] * TicksPerDay <= u + UtcOffset(tz, u)
                        /\ u + UtcOffset(tz, u) < (parsed[i] + 1) * TicksPerDay
                  /\ (output_type = "date" /\ tz = "ET" /\ c \in DateOnly)
                        => parsed[i] = (u \div TicksPerDay) - 1

\* a UTC midnight reported as the previous local date
C11_Witness ==
    /\ Parsed
    /\ output_type = "date"
    /\ tz = "ET"
    /\ \E i \in 1..Len(date_series) :
          /\ BodyOf(date_series[i]) \in DateOnly
          /\ Len(date_series[i]) > Len(BodyOf(date_series[i]))
          /\ parsed[i] = (InstantOf(BodyOf(date_series[i])) \div TicksPerDay) - 1

-----------------------------------------------------------------------------
(* Later claims on the aggregator *)

\* C12: with a valid period the call returns an empty bucket sequence and
\* raises nothing whenever there are no records or the bounds leave none.
C12_EmptyResultNoError ==
    (pc = "done" /\ period \in period_map /\ (df = <<>> \/ Survivors = {}))
        => (result.raised = "none" /\ Buckets = <<>>)

\* whether moment m lies on a day of the inclusive range of the two bounds
InRange(m) ==
    /\ start_date # None => MomentDay(start_date, m) >= BoundDay(start_date)
    /\ end_date # None => MomentDay(end_date, m) <= BoundDay(end_date)

\* the records of the input that have a moment, and that moment in range
CountedRecords == {i \in 1..Len(df) : df[i] # NaT /\ InRange(df[i])}

FinalCount == IF Buckets = <<>> THEN 0 ELSE Buckets[Len(Buckets)].launch_count

\* C14: a record whose moment is null is counted in no bucket, with or
\* without bounds: the final cumulative count is the number of records with
\* a non-null moment inside the inclusive range, and no bucket stands for
\* the null moment.
C14_NullNeverCounted ==
    Returned =>
        /\ FinalCount = Cardinality(CountedRecords)
        /\ \A i \in 1..Len(Buckets) : Buckets[i].period_label # NaT
        /\ Len(Buckets)
              = Cardinality({PeriodStartOf(WallIn(col_tz, df[i]), period) : i \in CountedRecords})

\* null moments beside real ones, and no bound to filter them out
C14_Witness ==
    /\ Returned
    /\ start_date = None
    /\ end_date = None
    /\ Len(df) = 3
    /\ df[1] = NaT
    /\ df[3] = NaT
    /\ FinalCount = 1

-----------------------------------------------------------------------------
(* The notebook pipeline, checked under SpecNotebook *)

\* C13: with the controls at their defaults (start = date of the earliest
\* parsed moment, end = date of the latest, both in the column's zone) no
\* parsed launch is filtered out: the last bucket's cumulative count is the
\* number of records with a parsed moment, for every valid period.
C13_DefaultsKeepEveryLaunch ==
    pc = "done" =>
        /\ result.raised = "none"
        /\ FinalCount = Cardinality({i \in 1..Len(parsed) : parsed[i] # NaT})

\* two launches in different quarters, the later one after its local midnight
C13_Witness ==
    /\ pc = "done"
    /\ period = "quarter"
    /\ Len(Buckets) = 2
    /\ FinalCount = 2
    /\ WallIn(col_tz, SeriesMax(df)) % TicksPerDay # 0

====
